---- MODULE Spec2Model ----
(***************************************************************************)
(* Client and process monitor for the java socket server                   *)
(* (stanford_corenlp_pywrapper/sockwrap.py): the CoreNLP session, its      *)
(* worker process, the SOCKET and PIPE transports, the length-framed       *)
(* response reader and the startup PING handshake.                         *)
(*                                                                         *)
(* The client is single threaded.  Its control position is pc together     *)
(* with the stack stk of active start_server / send_command_and_parse_     *)
(* result frames; every client action runs the code from one interaction   *)
(* with the outside world (a connect, a send, a read, a Popen) up to the   *)
(* next one.  The worker process and the operating system are the          *)
(* environment: they decide when the worker listens, when it exits, and    *)
(* what each connect, send and read yields.                                *)
(***************************************************************************)
EXTENDS Integers, Sequences, FiniteSets, TLC

\* ------------------------------------------------------------------ bounds
MaxLaunch == 2      \* worker launches (Popen calls) explored
MaxLen == 2         \* largest response length a header declares, in length units

\* ------------------------------------------------------- program constants
ProbeRetries == 100 \* get_socket(num_retries=100, ...) in start_server
CallRetries == 100  \* get_socket(num_retries=100) in send_command_and_get_string_result
ChunkLimit == 1000  \* len(chunks) > 1000

\* ------------------------------------------------------------ value spaces
NoMode == "None"
NoFile == "None"
NoDict == [isNone |-> TRUE, keys |-> {}]
Dict(ks) == [isNone |-> FALSE, keys |-> ks]

CommModes == {"SOCKET", "PIPE"}
ModeArgs == {NoMode, "ssplit"}
FileArgs == {NoFile, "corenlp.ini"}
ConfigKeys == {"annotators"}
DictArgs == {NoDict} \cup {Dict(ks) : ks \in SUBSET ConfigKeys}

\* The texts a worker can send as a payload, and what json.loads makes of them.
RawPong == "\"PONG\""
RawDoc == "{\"sentences\": []}"
RawOther == "\"PANG\""
RawNull == "null"
RawBad == "PONG"
RawEmpty == ""
Texts == {RawPong, RawDoc, RawOther, RawNull, RawBad}

PingCmd == "PING"
ParseCmd == "PARSEDOC"
Cmds == {PingCmd, ParseCmd}

\* Values of a finished operation: a Python value, None, or a raised exception.
Val(op, v) == [op |-> op, kind |-> "val", v |-> v]
PyNone(op) == [op |-> op, kind |-> "None", v |-> ""]
Exc(op, e) == [op |-> op, kind |-> "raise", v |-> e]
Pending == [op |-> "none", kind |-> "pending", v |-> ""]

NoReply == [got |-> FALSE, text |-> "", startup |-> FALSE]
Reply(text, startup) == [got |-> TRUE, text |-> text, startup |-> startup]
NoReq == [cmd |-> "", raw |-> FALSE]

SSFrame == [fn |-> "start_server", cmd |-> "", raw |-> FALSE]
CallFrame(cmd, raw) == [fn |-> "send_command_and_parse_result", cmd |-> cmd, raw |-> raw]

VARIABLES
    comm_mode, mode, configfile, configdict, jarsExist,  \* constructor arguments / self.*
    proc,          \* self.proc: 0 is None, else the index of the launched worker
    wstate,        \* per launched worker: [st, cmd]; st is starting, listening, stalled,
                   \* exited (crashed or terminated from outside) or killed (by os.kill)
    pipeExists,    \* os.path.exists(self.outpipe)
    outpipe_fp,    \* self.outpipe_fp: 0 unset, else the worker whose pipe end it reads
    ponged,        \* workers whose startup PING came back as PONG
    pc, stk, base, \* control position, frame stack, operation at the stack's bottom
    trial, sleeps, \* get_socket: attempts failed so far, sleeps made so far
    sock,          \* the current call holds a connected socket
    unclosed,      \* a connection no name refers to any more is still open
    size_info, curlen, nchunks,   \* the payload loop
    nsent,         \* times the current caller request was written to the worker
    result,        \* outcome of the last finished operation
    req,           \* the caller request under way or last made: [cmd, raw]
    reply,         \* the payload the last request sent has received in full, if any
    exc,           \* the last exception raised inside the current operation, "" if none
    stale,         \* where output the worker owes to an abandoned request lies: "none",
                   \* "here" (the channel the client reads next), "old" (a dropped connection)
    tainted,       \* the current caller request has read bytes owed to an earlier request
    callDead,      \* the current call began with a worker that crashed or was terminated from outside
    fault          \* the environment misbehaved during the current operation

args == <<comm_mode, mode, configfile, jarsExist>>
sess == <<configdict, proc, wstate, pipeExists, outpipe_fp, ponged>>
ctl == <<pc, stk, base, trial, sleeps, sock, size_info, curlen, nchunks>>
hist == <<unclosed, nsent, result, req, reply, exc, callDead, fault>>
chan == <<stale, tainted>>
vars == <<args, sess, ctl, hist, chan>>

Front(s) == SubSeq(s, 1, Len(s) - 1)
Top(s) == s[Len(s)]

\* ------------------------------------------------------------ json.loads
\* json.loads(data): the decoded value, None for JSON null, ValueError otherwise.
json_loads(text) ==
    CASE text = RawPong -> Val("json", "PONG")
      [] text = RawDoc -> Val("json", "DOC")
      [] text = RawOther -> Val("json", "PANG")
      [] text = RawNull -> PyNone("json")
      [] OTHER -> Exc("json", "ValueError")

\* ---------------------------------------------------------------- command
\* command(mode, configfile, configdict, comm_mode, **kwargs): ok is FALSE when an
\* assert fails; dictAfter is the caller's dict object after the call (line 67
\* writes into the dict it was handed); line is the command line built.
command(m, cf, cd, cm) ==
    LET allNone == m = NoMode /\ cf = NoFile /\ cd.isNone
        clash == m # NoMode /\ ~cd.isNone /\ "annotators" \in cd.keys
        local == IF m # NoMode
                 THEN Dict((IF cd.isNone THEN {} ELSE cd.keys) \cup {"annotators"})
                 ELSE cd
        dictAfter == IF m # NoMode /\ ~cd.isNone THEN local ELSE cd
        line == [configfile |-> cf,
                 configdict |-> IF local.isNone \/ local.keys = {} THEN {} ELSE local.keys,
                 annotators |-> IF m # NoMode THEN m ELSE "configured",
                 comm_info |-> IF cm = "SOCKET" THEN "--server" ELSE "--outpipe"]
    IN  IF allNone \/ clash
        THEN [ok |-> FALSE, dictAfter |-> cd, line |-> line]
        ELSE [ok |-> TRUE, dictAfter |-> dictAfter, line |-> line]

\* ------------------------------------------------------- process handling
\* A poll that takes a worker that is not serving yet for one that has exited.
Exited_unless_serving(ws, p) == ws[p].st # "listening"

\* self.proc.poll() is not None
Exited(ws, p) == ws[p].st \in {"exited", "killed"}

Alive(ws) == {p \in 1..Len(ws) : ~Exited(ws, p)}

\* kill_proc_if_running: the worker table afterwards
kill_proc_if_running(p, ws) ==
    IF p = 0 THEN ws
    ELSE IF Exited(ws, p) THEN ws
    ELSE [ws EXCEPT ![p].st = "killed"]

TypeOK ==
    /\ comm_mode \in CommModes /\ mode \in ModeArgs /\ configfile \in FileArgs
    /\ configdict \in DictArgs /\ jarsExist \in BOOLEAN
    /\ proc \in 0..Len(wstate)
    /\ pipeExists \in BOOLEAN /\ outpipe_fp \in 0..Len(wstate)
    /\ ponged \subseteq 1..Len(wstate)
    /\ pc \in {"new", "failed", "idle", "probe", "ping", "connect", "send", "header", "payload"}
    /\ \A p \in 1..Len(wstate) : wstate[p].st \in {"starting", "listening", "stalled", "exited", "killed"}
    /\ base \in {"none", "init", "call"}
    /\ trial \in 0..100 /\ sleeps \in 0..100
    /\ sock \in BOOLEAN /\ unclosed \in BOOLEAN
    /\ size_info \in 0..(MaxLen + 1) /\ curlen \in 0..(MaxLen + 1) /\ nchunks \in 0..(ChunkLimit + 1)
    /\ nsent \in 0..2 /\ callDead \in BOOLEAN /\ fault \in BOOLEAN
    /\ req.cmd \in Cmds \cup {""} /\ reply.text \in Texts \cup {RawEmpty}
    /\ stale \in {"none", "here", "old"} /\ tainted \in BOOLEAN

Init ==
    /\ comm_mode \in CommModes
    /\ mode \in ModeArgs
    /\ configfile \in FileArgs
    /\ configdict \in DictArgs
    /\ jarsExist \in BOOLEAN
    /\ proc = 0 /\ wstate = <<>> /\ pipeExists = FALSE /\ outpipe_fp = 0 /\ ponged = {}
    /\ pc = "new" /\ stk = <<>> /\ base = "none"
    /\ trial = 0 /\ sleeps = 0 /\ sock = FALSE /\ unclosed = FALSE
    /\ size_info = 0 /\ curlen = 0 /\ nchunks = 0 /\ nsent = 0
    /\ result = Pending /\ callDead = FALSE /\ fault = FALSE
    /\ req = NoReq /\ reply = NoReply /\ exc = ""
    /\ stale = "none" /\ tainted = FALSE

\* ---------------------------------------------------------- control flow
\* Where send_command_and_parse_result goes on once ensure_proc_is_running is done:
\* send_command_and_get_string_result starts with get_socket (SOCKET) or the write (PIPE).
AfterEnsure == IF comm_mode = "SOCKET" THEN "connect" ELSE "send"

Goto(p, s, b) ==
    /\ pc' = p /\ stk' = s /\ base' = b

\* The local name sock goes out of scope without sock.close(): the connection is
\* closed only when the runtime finalizes the socket object, at once or later.
Release ==
    /\ sock' = FALSE
    /\ \E closedNow \in BOOLEAN : unclosed' = (unclosed \/ (sock /\ ~closedNow))

\* The operation at the bottom of the stack ends with outcome r.  A constructor
\* that raised leaves no usable object; line 148 registers the exit hook otherwise.
Finish(b, r) ==
    /\ Goto(IF b = "init" /\ r.kind = "raise" THEN "failed" ELSE "idle", <<>>, "none")
    /\ result' = r

\* An exception no frame on the stack catches.
RaiseAll(b, e) ==
    /\ Finish(b, Exc(b, e))
    /\ Release
    /\ ponged' = ponged
    /\ exc' = e

\* A PING loop that takes any reply that is not None as the sign of a started server.
ping_loop_lenient(v) ==
    IF v.kind = "None" THEN "continue" ELSE "break"

\* Lines 181-184: what the PING loop does with the value ret of its PING.
ping_loop(v) ==
    IF v.kind = "None" THEN "continue"
    ELSE IF v.v = "PONG" THEN "break"
    ELSE "assert"

\* send_command_and_parse_result returns v to its caller: the user (empty rest), or
\* the PING loop of start_server (lines 180-185), which retries on None, breaks on
\* "PONG" (start_server then returns to __init__ or to ensure_proc_is_running) and
\* fails its assert on anything else.
ReturnToCaller(v, e) ==
    LET rest == Front(stk)
        rest2 == Front(rest)
    IN  /\ Release
        /\ IF rest = <<>>
           THEN Finish(base, [v EXCEPT !.op = "call"]) /\ ponged' = ponged /\ exc' = e
           ELSE IF ping_loop(v) = "continue"
           THEN Goto("ping", rest, base) /\ UNCHANGED <<result, ponged>> /\ exc' = e
           ELSE IF ping_loop(v) = "break"
           THEN /\ ponged' = ponged \cup {proc}
                /\ exc' = e
                /\ IF rest2 = <<>>
                   THEN Finish(base, Val("init", "constructed"))
                   ELSE Goto(AfterEnsure, rest2, base) /\ UNCHANGED result
           ELSE /\ Finish(base, Exc(base, "AssertionError")) /\ ponged' = ponged
                /\ exc' = "AssertionError"

\* A timeout handler that force-kills the worker the call was waiting for.
timeout_handler_restart ==
    /\ ReturnToCaller(PyNone("call"), "socket.timeout")
    /\ wstate' = kill_proc_if_running(proc, wstate)
    /\ UNCHANGED <<configdict, proc, pipeExists, outpipe_fp>>

\* except socket.timeout (lines 246-248): log, return None; nothing else is touched.
timeout_handler ==
    /\ ReturnToCaller(PyNone("call"), "socket.timeout")
    /\ UNCHANGED <<configdict, proc, wstate, pipeExists, outpipe_fp>>

\* An exception raised inside send_command_and_get_string_result: socket.timeout is
\* caught by send_command_and_parse_result; socket.error is caught by the PING loop
\* when start_server is the caller (lines 186-189: sleep, retry); anything else, and
\* socket.error in a caller's own request, propagates.
Raise(e) ==
    IF e = "socket.timeout"
    THEN timeout_handler
    ELSE /\ UNCHANGED <<configdict, proc, wstate, pipeExists, outpipe_fp>>
         /\ IF e = "socket.error" /\ Len(stk) > 1
            THEN /\ Goto("ping", Front(stk), base) /\ Release /\ UNCHANGED <<result, ponged>>
                 /\ exc' = e
            ELSE RaiseAll(base, e)

\* A result path that hands back the text without decoding it.
parse_result_undecoded(text, raw) == Val("call", text)

\* Lines 235-245: data is not None here; raw returns the text, otherwise json.loads,
\* whose ValueError becomes None.
parse_result(text, raw) ==
    IF raw THEN Val("call", text)
    ELSE LET d == json_loads(text)
         IN  IF d.kind = "raise" THEN PyNone("call") ELSE d

\* A start_server that takes the fifo for granted.
mkfifo_skipped(cm, exists) == exists

\* Lines 163-165: os.path.exists(self.outpipe) after the PIPE branch of start_server.
mkfifo_if_missing(cm, exists) ==
    IF cm = "PIPE" THEN (IF ~exists THEN TRUE ELSE exists) ELSE exists

\* start_server lines 161-170, called with the frames s below it: kill the previous
\* worker, make the fifo, build the command line, Popen, warm-up sleep.
start_server(b, s, r0) ==
    LET ws1 == kill_proc_if_running(proc, wstate)
        c == command(mode, configfile, configdict, comm_mode)
    IN  /\ pipeExists' = mkfifo_if_missing(comm_mode, pipeExists)
        /\ UNCHANGED outpipe_fp
        /\ IF c.ok
           THEN /\ wstate' = Append(ws1, [st |-> "starting", cmd |-> c.line])
                /\ proc' = Len(ws1) + 1
                /\ configdict' = c.dictAfter
                /\ Goto("probe", Append(s, SSFrame), b)
                /\ result' = r0 /\ exc' = ""
                /\ UNCHANGED <<ponged, sock, unclosed>>
           ELSE /\ wstate' = ws1
                /\ UNCHANGED <<proc, configdict>>
                /\ RaiseAll(b, "AssertionError")

\* A call that restarts the worker whatever its state.
NeedsStart_always == TRUE

\* ensure_proc_is_running: restart when never started or observed exited.
NeedsStart == proc = 0 \/ Exited(wstate, proc)

ensure_proc_is_running(b, s, r0) ==
    IF NeedsStart
    THEN start_server(b, s, r0)
    ELSE /\ Goto(AfterEnsure, s, b)
         /\ result' = r0 /\ exc' = ""
         /\ UNCHANGED <<sess, sock, unclosed>>

\* send_command_and_parse_result(cmd, timeout, raw) up to its first input or output.
EnterCall(b, frame, s, r0) ==
    /\ NeedsStart => Len(wstate) < MaxLaunch
    /\ ensure_proc_is_running(b, Append(s, frame), r0)
    /\ size_info' = 0 /\ curlen' = 0 /\ nchunks' = 0
    /\ trial' = 0 /\ sleeps' = 0
    /\ reply' = NoReply
    /\ stale' = (IF NeedsStart THEN "none" ELSE stale)

\* ------------------------------------------------------------ get_socket
\* A get_socket whose loop falls off its end without the final assert.
get_socket_silent(num_retries, t, s, connects) ==
    IF t >= num_retries THEN [out |-> "none", trial |-> t, sleeps |-> s]
    ELSE IF connects THEN [out |-> "return", trial |-> t, sleeps |-> s]
    ELSE IF t < num_retries - 1 THEN [out |-> "retry", trial |-> t + 1, sleeps |-> s + 1]
    ELSE [out |-> "none", trial |-> t + 1, sleeps |-> s]

\* One pass of the for loop of get_socket(num_retries, retry_interval) with t failed
\* attempts and s sleeps behind it: a connect that succeeds returns the socket; one
\* that fails sleeps when trial < num_retries-1; after the last one, assert False.
get_socket(num_retries, t, s, connects) ==
    IF t >= num_retries THEN [out |-> "raise", trial |-> t, sleeps |-> s]
    ELSE IF connects THEN [out |-> "return", trial |-> t, sleeps |-> s]
    ELSE IF t < num_retries - 1 THEN [out |-> "retry", trial |-> t + 1, sleeps |-> s + 1]
    ELSE [out |-> "raise", trial |-> t + 1, sleeps |-> s]

\* get_socket from pass t on when no connect can succeed any more (the worker has
\* exited and nothing relaunches it before the loop ends): the passes are repeated
\* until one does not ask for a retry.
RECURSIVE get_socket_refused(_, _, _)
get_socket_refused(num_retries, t, s) ==
    LET g == get_socket(num_retries, t, s, FALSE)
    IN  IF g.out = "retry" THEN get_socket_refused(num_retries, g.trial, g.sleeps) ELSE g

\* A get_socket that hands back the connection of the previous call.
reused_socket(st) == st

\* Line 220: every get_socket makes a new socket, hence a new connection; what an
\* earlier connection still has to deliver stays on that earlier connection.
fresh_socket(st) == IF st = "here" THEN "old" ELSE st

\* One interaction of get_socket with the outside world.
get_socket_step(num_retries, t, s, listening, gone) ==
    IF gone THEN get_socket_refused(num_retries, t, s)
    ELSE get_socket(num_retries, t, s, listening)

\* The worker accepts connections / has the fifo open for writing.
Listening == proc # 0 /\ wstate[proc].st \in {"listening", "stalled"}
Stalled == proc # 0 /\ wstate[proc].st = "stalled"
Responsive == proc # 0 /\ wstate[proc].st = "listening"
Gone == proc = 0 \/ Exited(wstate, proc)

\* ----------------------------------------------------------------- actions
\* __init__ (lines 118-148): the fields, the pipe name, the jar check, start_server.
jars_found_unchecked == TRUE

\* Line 134: any(os.path.exists(f) for f in deglobbed)
jars_found == jarsExist

Construct ==
    /\ pc = "new"
    /\ UNCHANGED <<args, size_info, curlen, nchunks, nsent, callDead, req, reply, chan>>
    /\ fault' = FALSE /\ trial' = 0 /\ sleeps' = 0
    /\ IF (comm_mode = "PIPE" /\ pipeExists) \/ ~jars_found
       THEN /\ RaiseAll("init", "AssertionError")
            /\ UNCHANGED <<configdict, proc, wstate, pipeExists, outpipe_fp>>
       ELSE start_server("init", <<>>, Pending)

\* start_server lines 172-176: the connect-then-close probe (SOCKET), one connect
\* per step, or the blocking open of the fifo for reading (PIPE), which returns
\* once the worker has opened it for writing.
ProbeChannel ==
    /\ pc = "probe"
    /\ UNCHANGED <<args, configdict, proc, wstate, pipeExists, size_info, curlen, nchunks,
                   nsent, callDead, req, reply, chan>>
    /\ IF comm_mode = "SOCKET"
       THEN \E g \in {get_socket_step(ProbeRetries, trial, sleeps, Listening, Gone)} :
                /\ UNCHANGED outpipe_fp
                /\ trial' = (IF g.out = "return" THEN 0 ELSE g.trial)
                /\ sleeps' = (IF g.out = "return" THEN 0 ELSE g.sleeps)
                /\ CASE g.out = "return" ->
                          /\ Goto("ping", stk, base)
                          /\ UNCHANGED <<result, ponged, sock, unclosed, fault, exc>>
                     [] g.out = "retry" ->
                          /\ UNCHANGED <<pc, stk, base, result, ponged, sock, unclosed, fault, exc>>
                     [] g.out = "raise" ->
                          /\ RaiseAll(base, "AssertionError") /\ fault' = TRUE
                     [] OTHER ->
                          /\ RaiseAll(base, "AttributeError") /\ fault' = TRUE
       ELSE IF ~pipeExists
            THEN /\ RaiseAll(base, "IOError") /\ fault' = TRUE
                 /\ UNCHANGED <<outpipe_fp, trial, sleeps>>
            ELSE /\ Listening
                 /\ outpipe_fp' = proc
                 /\ Goto("ping", stk, base)
                 /\ UNCHANGED <<result, ponged, sock, unclosed, fault, trial, sleeps, exc>>

\* start_server line 180: the PING of the startup loop.
Ping ==
    /\ pc = "ping"
    /\ EnterCall(base, CallFrame(PingCmd, FALSE), stk, result)
    /\ UNCHANGED <<args, nsent, callDead, fault, req, tainted>>

\* A caller's request: parse_doc / send_command_and_parse_result on a constructed session.
Call(cmd, raw) ==
    /\ pc = "idle"
    /\ ~unclosed
    /\ EnterCall("call", CallFrame(cmd, raw), <<>>, Pending)
    /\ callDead' = (proc # 0 /\ wstate[proc].st = "exited")
    /\ nsent' = 0 /\ fault' = FALSE /\ tainted' = FALSE
    /\ req' = [cmd |-> cmd, raw |-> raw]
    /\ UNCHANGED args

\* send_command_and_get_string_result line 256: get_socket(num_retries=100), one
\* connect per step.
ConnectCall ==
    /\ pc = "connect"
    /\ UNCHANGED <<args, size_info, curlen, nchunks, nsent, callDead, req, reply, tainted>>
    /\ \E g \in {get_socket_step(CallRetries, trial, sleeps, Listening, Gone)} :
           /\ stale' = (IF g.out = "return" THEN fresh_socket(stale) ELSE stale)
           /\ trial' = (IF g.out = "return" THEN 0 ELSE g.trial)
           /\ sleeps' = (IF g.out = "return" THEN 0 ELSE g.sleeps)
           /\ CASE g.out = "return" ->
                  /\ Goto("send", stk, base) /\ sock' = TRUE
                  /\ UNCHANGED <<sess, result, unclosed, fault, exc>>
             [] g.out = "retry" ->
                  /\ UNCHANGED <<sess, pc, stk, base, result, sock, unclosed, fault, exc>>
             [] g.out = "raise" ->
                  /\ Raise("AssertionError") /\ fault' = TRUE
             [] OTHER ->
                  /\ Raise("AttributeError") /\ fault' = TRUE

\* Lines 257-258 / 261-262: write the request.  A write to a worker that has exited
\* raises (socket.error, or IOError on the worker's closed stdin) unless the kernel
\* still buffers it (SOCKET).
IsCallerRequest == Len(stk) = 1

Send ==
    /\ pc = "send"
    /\ UNCHANGED <<args, size_info, curlen, nchunks, callDead, req, trial, sleeps, chan>>
    /\ reply' = NoReply
    /\ \/ /\ ~Gone \/ comm_mode = "SOCKET"
          /\ Goto("header", stk, base)
          /\ nsent' = IF IsCallerRequest THEN nsent + 1 ELSE nsent
          /\ exc' = ""
          /\ UNCHANGED <<sess, result, sock, unclosed, fault>>
       \/ /\ Gone
          /\ Raise(IF comm_mode = "SOCKET" THEN "socket.error" ELSE "IOError")
          /\ fault' = TRUE /\ UNCHANGED nsent

\* A request given up while its worker lives: the worker still writes the rest of
\* the reply, to the channel the request came on.
Abandoned(st) == IF Gone THEN st ELSE "here"

\* Lines 259/263 and 267: read the 8-byte length header and unpack it.
\* A responsive worker sends the header (SOCKET may deliver only part of it, or
\* nothing before the timeout); the PIPE read has no timeout and blocks while the
\* worker is stalled; after the worker's exit the read returns what is left, fewer
\* than 8 bytes.
RecvHeader ==
    /\ pc = "header"
    /\ UNCHANGED <<args, nsent, callDead, req, reply, trial, sleeps>>
    /\ \/ /\ stale # "here" /\ Responsive
          /\ \E n \in 0..MaxLen :
                /\ size_info' = n /\ curlen' = 0 /\ nchunks' = 0
                /\ Goto("payload", stk, base)
                /\ UNCHANGED <<sess, result, sock, unclosed, fault, exc, chan>>
       \/ /\ stale = "here" /\ ~Gone
          /\ \E n \in 0..MaxLen :
                /\ size_info' = n /\ curlen' = 0 /\ nchunks' = 0
                /\ Goto("payload", stk, base)
                /\ stale' = "none" /\ tainted' = TRUE /\ fault' = TRUE
                /\ UNCHANGED <<sess, result, sock, unclosed, exc>>
       \/ /\ (Responsive /\ comm_mode = "SOCKET") \/ Gone
          /\ Raise("struct.error") /\ fault' = TRUE
          /\ stale' = Abandoned(stale) /\ tainted' = tainted
          /\ UNCHANGED <<size_info, curlen, nchunks>>
       \/ /\ ~Gone /\ comm_mode = "SOCKET"
          /\ Raise("socket.timeout") /\ fault' = TRUE
          /\ stale' = Abandoned(stale) /\ tainted' = tainted
          /\ UNCHANGED <<size_info, curlen, nchunks>>
       \/ /\ Gone /\ comm_mode = "SOCKET"
          /\ Raise("socket.error") /\ fault' = TRUE
          /\ UNCHANGED <<size_info, curlen, nchunks, chan>>

\* The reply the protocol prescribes for a request.
Nominal(cmd) == IF cmd = PingCmd THEN RawPong ELSE RawDoc

\* A loop that stops at the first chunk that holds any data.
loop_done_first_data(cur, n) == cur >= 1 \/ cur >= n

\* Line 279: if curlen() >= size_info: break
loop_done(cur, n) == cur >= n

\* Line 280: the loop gives up once it holds this many chunks.
GiveUp(c) == c > ChunkLimit

\* Lines 272-283 when every further read returns '' (end of stream): chunks grows by
\* one per pass, and the loop returns None at the first pass that meets the test of
\* line 280; the result is len(chunks) at that return.
SpinAtEOF(n) ==
    LET last == (IF n > ChunkLimit THEN n ELSE ChunkLimit) + 1
    IN  CHOOSE c \in (n + 1)..last :
            GiveUp(c) /\ \A d \in (n + 1)..(c - 1) : ~GiveUp(d)

\* Lines 272-284 and 235-245: one read of the payload loop, and what follows it.
\* k bytes arrive: a responsive worker sends 1..remaining of them (SOCKET) or all
\* that remain (the blocking PIPE read); a zero-length read returns '' at once.
RecvPayload ==
    /\ pc = "payload"
    /\ UNCHANGED <<args, nsent, callDead, size_info, req, trial, sleeps>>
    /\ LET remaining == size_info - curlen
           frame == Top(stk)
       IN  \/ /\ \E k \in 0..remaining :
                   /\ IF remaining = 0
                      THEN TRUE
                      ELSE Responsive /\ k >= 1 /\ (comm_mode = "PIPE" => k = remaining)
                   /\ curlen' = curlen + k
                   /\ nchunks' = nchunks + 1
                   /\ UNCHANGED <<configdict, proc, wstate, pipeExists, outpipe_fp>>
                   /\ IF loop_done(curlen + k, size_info)
                      THEN \E text \in (IF curlen + k = 0 THEN {RawEmpty} ELSE Texts) :
                              /\ ReturnToCaller(parse_result(text, frame.raw), exc)
                              /\ reply' = Reply(text, Len(stk) > 1)
                              /\ fault' = (fault \/ text # Nominal(frame.cmd))
                              /\ UNCHANGED chan
                      ELSE IF GiveUp(nchunks + 1)
                      THEN /\ ReturnToCaller(PyNone("call"), exc) /\ fault' = TRUE
                           /\ reply' = reply
                           /\ stale' = Abandoned(stale) /\ tainted' = tainted
                      ELSE UNCHANGED <<pc, stk, base, sock, unclosed, result, ponged,
                                       fault, reply, exc, chan>>
           \/ /\ remaining > 0 /\ Gone
              /\ nchunks' = SpinAtEOF(nchunks)
              /\ curlen' = curlen
              /\ ReturnToCaller(PyNone("call"), exc) /\ fault' = TRUE
              /\ UNCHANGED <<configdict, proc, wstate, pipeExists, outpipe_fp, reply, chan>>
           \/ /\ ~Gone /\ comm_mode = "SOCKET"
              /\ Raise("socket.timeout") /\ fault' = TRUE
              /\ stale' = Abandoned(stale) /\ tainted' = tainted
              /\ UNCHANGED <<curlen, nchunks, reply>>
           \/ /\ remaining > 0 /\ Gone /\ comm_mode = "SOCKET"
              /\ Raise("socket.error") /\ fault' = TRUE
              /\ UNCHANGED <<curlen, nchunks, reply, chan>>

\* cleanup (lines 150-153), reached from an explicit call, the atexit hook (line 148)
\* and __del__ (line 158): kill the worker, unlink the pipe if it is there.
cleanup_unlinks_unguarded == comm_mode = "PIPE"

\* Line 152: self.outpipe and os.path.exists(self.outpipe)
cleanup_unlinks == comm_mode = "PIPE" /\ pipeExists

Cleanup ==
    /\ pc \in {"idle", "failed"}
    /\ wstate' = kill_proc_if_running(proc, wstate)
    /\ IF cleanup_unlinks
       THEN IF pipeExists
            THEN pipeExists' = FALSE /\ result' = Val("cleanup", "done")
            ELSE pipeExists' = pipeExists /\ result' = Exc("cleanup", "OSError")
       ELSE pipeExists' = pipeExists /\ result' = Val("cleanup", "done")
    /\ UNCHANGED <<args, configdict, proc, outpipe_fp, ponged, pc, stk, base, sock, unclosed>>
    /\ trial' = 0 /\ sleeps' = 0 /\ size_info' = 0 /\ curlen' = 0 /\ nchunks' = 0
    /\ nsent' = 0 /\ req' = NoReq /\ reply' = NoReply /\ callDead' = FALSE /\ fault' = FALSE
    /\ exc' = "" /\ stale' = "none" /\ tainted' = FALSE

\* ------------------------------------------------------------- environment
InOperation == pc \notin {"new", "idle", "failed"}

\* The worker opens its server socket (SOCKET) or the fifo for writing (PIPE).
WorkerListen(p) ==
    /\ wstate[p].st = "starting"
    /\ wstate' = [wstate EXCEPT ![p].st = "listening"]
    /\ UNCHANGED <<args, configdict, proc, pipeExists, outpipe_fp, ponged, ctl, hist, chan>>

\* The worker stops answering for a while (busy with a document, swapped out).  A
\* stall shows only at a read: a SOCKET read then times out (a choice of RecvHeader
\* and RecvPayload), a PIPE read blocks for as long as the stall lasts.
WorkerStall(p) ==
    /\ pc \in {"header", "payload"} /\ comm_mode = "PIPE"
    /\ wstate[p].st = "listening"
    /\ wstate' = [wstate EXCEPT ![p].st = "stalled"]
    /\ UNCHANGED <<args, configdict, proc, pipeExists, outpipe_fp, ponged, ctl, hist, chan>>

WorkerResume(p) ==
    /\ wstate[p].st = "stalled"
    /\ wstate' = [wstate EXCEPT ![p].st = "listening"]
    /\ UNCHANGED <<args, configdict, proc, pipeExists, outpipe_fp, ponged, ctl, hist, chan>>

\* The worker crashes or is terminated from outside.
WorkerExit(p) ==
    /\ ~Exited(wstate, p)
    /\ wstate' = [wstate EXCEPT ![p].st = "exited"]
    /\ fault' = (fault \/ InOperation)
    /\ stale' = (IF p = proc THEN "none" ELSE stale)
    /\ UNCHANGED <<args, configdict, proc, pipeExists, outpipe_fp, ponged, ctl,
                   unclosed, nsent, result, req, reply, exc, callDead, tainted>>

\* The runtime finalizes socket objects nothing refers to, closing their connections.
Finalize ==
    /\ unclosed
    /\ unclosed' = FALSE
    /\ UNCHANGED <<args, sess, ctl, nsent, result, req, reply, exc, callDead, fault, chan>>

UserCall == \E cmd \in Cmds, raw \in BOOLEAN : Call(cmd, raw)
Listens == \E p \in 1..Len(wstate) : WorkerListen(p)
Stalls == \E p \in 1..Len(wstate) : WorkerStall(p)
Resumes == \E p \in 1..Len(wstate) : WorkerResume(p)
Exits == \E p \in 1..Len(wstate) : WorkerExit(p)

\* The steps of an operation under way: the single client thread keeps running.
ClientStep == ProbeChannel \/ Ping \/ ConnectCall \/ Send \/ RecvHeader \/ RecvPayload

Next ==
    \/ Construct
    \/ ProbeChannel
    \/ Ping
    \/ UserCall
    \/ ConnectCall
    \/ Send
    \/ RecvHeader
    \/ RecvPayload
    \/ Cleanup
    \/ Listens
    \/ Stalls
    \/ Resumes
    \/ Exits
    \/ Finalize

Spec == Init /\ [][Next]_vars

FairSpec == Init /\ [][Next]_vars /\ WF_vars(ClientStep)

\* ================================================================= claims
FinishedCall == pc = "idle" /\ result.op = "call"
OwnReply == reply.got /\ ~reply.startup

\* C1: a call made after the worker was terminated from outside relaunches the
\* worker, redoes the handshake and returns the worker's answer without raising,
\* for every accepted constructor configuration, when the relaunched worker
\* behaves (no fault of the environment during the call).
C1_RespawnCompletesCall ==
    (FinishedCall /\ callDead /\ ~fault) =>
        /\ result.kind = "val"
        /\ proc = Len(wstate) /\ proc \in ponged

\* C2: with corenlp_jars that expand to no existing file the constructor raises
\* before any worker is launched: no Popen, self.proc stays None, no fifo is made.
C2_NoJarsNoLaunch ==
    (~jarsExist /\ pc # "new") =>
        /\ pc = "failed"
        /\ proc = 0 /\ wstate = <<>> /\ ~pipeExists
        /\ result.op = "init" => result = Exc("init", "AssertionError")

C2_Witness ==
    /\ pc = "failed" /\ ~jarsExist /\ comm_mode = "PIPE"
    /\ command(mode, configfile, configdict, comm_mode).ok
    /\ result = Exc("init", "AssertionError")

\* C3: every run of cleanup raises nothing and leaves no live worker and no pipe
\* file; a run that follows another run of cleanup changes nothing at all.
C3_CleanupIdempotent ==
    [][Cleanup =>
        /\ result' = Val("cleanup", "done")
        /\ Alive(wstate') = {} /\ ~pipeExists'
        /\ result.op = "cleanup" => vars' = vars]_vars

C3_Witness ==
    /\ pc = "idle" /\ result = Val("cleanup", "done")
    /\ comm_mode = "PIPE" /\ proc # 0 /\ outpipe_fp = proc /\ proc \in ponged
    /\ ~pipeExists /\ Alive(wstate) = {}

\* C4 as stated: every PING issued after the session became ready returns exactly "PONG".
C4_PingAlwaysPong ==
    (FinishedCall /\ req.cmd = PingCmd) => result = Val("call", "PONG")

\* C4 amended: a PING issued after the session became ready returns exactly "PONG"
\* when the worker's PONG frame arrives in full (and raw was not asked for); when no
\* reply arrives in full the call returns None or raises.
C4_AnsweredPingIsPong ==
    (FinishedCall /\ req.cmd = PingCmd) =>
        /\ (OwnReply /\ reply.text = RawPong /\ ~req.raw) => result = Val("call", "PONG")
        /\ (OwnReply /\ reply.text = RawPong /\ req.raw) => result = Val("call", RawPong)
        /\ ~OwnReply => result.kind \in {"None", "raise"}

C4_Witness ==
    /\ FinishedCall /\ req = [cmd |-> PingCmd, raw |-> FALSE]
    /\ OwnReply /\ reply.text = RawPong /\ result = Val("call", "PONG")
    /\ Len(wstate) > 1

\* C5: a payload read that has fewer bytes than the header declared never waits on
\* the worker: in every such state the client can go on by itself (to the next read,
\* to a timeout or to giving up), so that the call ends whatever the worker does.
C5_PayloadReadEnds ==
    (pc = "payload" /\ curlen < size_info) => ENABLED ClientStep

\* C6: a call on a ready session (its worker alive when the call began) ends with a
\* value or None, never with an exception.
C6_CallNeverRaises ==
    (FinishedCall /\ ~callDead) => result.kind # "raise"

\* C7: the step that ends a caller's request by a receive timeout or by a payload
\* that does not decode returns None, leaves the worker handle and the worker
\* itself as they were, and the request has been written exactly once.
TimeoutEnds ==
    /\ pc \in {"header", "payload"} /\ Len(stk) = 1
    /\ exc' = "socket.timeout" /\ pc' = "idle"

DecodeFails ==
    /\ pc = "payload" /\ Len(stk) = 1 /\ pc' = "idle"
    /\ reply'.got /\ ~req.raw /\ json_loads(reply'.text).kind = "raise"

C7_FailedCallLeavesWorker ==
    [][(TimeoutEnds \/ DecodeFails) =>
        /\ result' = PyNone("call")
        /\ proc' = proc /\ wstate' = wstate
        /\ UNCHANGED <<configdict, pipeExists, outpipe_fp, ponged>>
        /\ nsent' = 1]_vars

C7_Witness ==
    /\ FinishedCall /\ result = PyNone("call") /\ exc = "socket.timeout"
    /\ nsent = 1 /\ proc # 0 /\ ~Exited(wstate, proc) /\ proc \in ponged

\* C8: get_socket makes at most num_retries connects, sleeps once between two
\* consecutive ones, returns the socket at the first connect that succeeds, and
\* raises (never returns None) when all of them fail.
InGetSocket == pc = "connect" \/ (pc = "probe" /\ comm_mode = "SOCKET")
Retries == IF pc = "probe" THEN ProbeRetries ELSE CallRetries

C8_GetSocketBounded ==
    /\ [](InGetSocket => (trial < Retries /\ sleeps = trial))
    /\ [][(InGetSocket /\ (pc' # pc \/ trial' # trial)) =>
            IF Listening
            THEN /\ pc' = (IF pc = "connect" THEN "send" ELSE "ping")
                 /\ pc = "connect" => sock'
            ELSE IF Gone \/ trial = Retries - 1
            THEN /\ result'.kind = "raise" /\ result'.v = "AssertionError"
                 /\ trial' = Retries /\ sleeps' = Retries - 1
                 /\ pc' \in {"idle", "failed"}
            ELSE pc' = pc /\ trial' = trial + 1 /\ sleeps' = sleeps + 1]_vars

C8_Witness ==
    /\ FinishedCall /\ result = Exc("call", "AssertionError")
    /\ trial = CallRetries /\ sleeps = CallRetries - 1

\* C9: in SOCKET mode no client connection is open between calls.
C9_NoConnectionBetweenCalls ==
    (pc = "idle" /\ comm_mode = "SOCKET") => (~sock /\ ~unclosed)

\* C10: in the startup PING loop a reply received in full that is not the string
\* PONG is never followed by another PING attempt.
C10_NoPingAfterBadReply ==
    ~(pc = "ping" /\ reply.got /\ reply.startup /\ reply.text # RawPong)

\* C11: in the startup PING loop a refused connect or a transport error raised by a
\* send or a read never ends start_server: the loop stays in its connects or goes
\* back to send another PING.
StartupPing == Len(stk) > 1 /\ pc \in {"connect", "send", "header", "payload"}
ConnectRefused == pc = "connect" /\ ~Listening /\ trial' # trial
TransportRaised == exc' # exc /\ exc' \in {"socket.error", "IOError"}

C11_StartupRetriesForever ==
    [][(StartupPing /\ (ConnectRefused \/ TransportRaised)) =>
            /\ result'.kind # "raise"
            /\ pc' \in {"connect", "ping"}]_vars

\* C12: a session never has more than one live worker, and a live worker is the one
\* self.proc refers to.
LiveWorkers == {p \in 1..Len(wstate) : wstate[p].st \in {"starting", "listening", "stalled"}}

C12_AtMostOneLiveWorker ==
    /\ Cardinality(LiveWorkers) <= 1
    /\ LiveWorkers \subseteq {proc}

C12_Witness ==
    /\ FinishedCall /\ result.kind = "val"
    /\ Len(wstate) = 2 /\ wstate[1].st = "killed" /\ LiveWorkers = {2}

\* C13: the channel is opened only for the worker just launched, a startup PING is
\* sent only once the channel is open, and a caller's request is sent only to a
\* worker that has answered PONG.
C13_HandshakeBeforeRequests ==
    /\ pc = "probe" => (proc = Len(wstate) /\ proc \notin ponged)
    /\ (Len(stk) > 1 /\ pc \in {"send", "header", "payload"} /\ comm_mode = "PIPE")
            => outpipe_fp = proc
    /\ (Len(stk) = 1 /\ pc \in {"header", "payload"}) => proc \in ponged

\* C14 as stated: a call whose request was written gets from
\* send_command_and_get_string_result a string as long as the header declared, or
\* else the return value None.
C14_StringOrNone ==
    (FinishedCall /\ nsent = 1) =>
        IF reply.got THEN curlen = size_info ELSE exc = ""

\* C14 amended: a string handed back is as long as the header declared, a caller
\* gets a value only from such a string, and otherwise the call yields None or an
\* exception.
C14_NoPartialPayload ==
    /\ reply.got => curlen = size_info
    /\ (FinishedCall /\ result.kind = "val") => reply.got
    /\ (FinishedCall /\ nsent = 1 /\ ~reply.got) => result.kind \in {"None", "raise"}

C14_Witness ==
    /\ FinishedCall /\ result.kind = "val" /\ OwnReply
    /\ size_info = 2 /\ curlen = 2 /\ nchunks = 2

\* C15: the payload loop never makes more reads than the limit of 1000.
C15_NoReadBeyondLimit == nchunks <= ChunkLimit

\* C16: in SOCKET mode no request reads bytes the worker owed to an earlier,
\* abandoned request.
C16_SocketReadsOwnReply == comm_mode = "SOCKET" => ~tainted

C16_Witness ==
    /\ FinishedCall /\ comm_mode = "SOCKET" /\ stale = "old"
    /\ OwnReply /\ result.kind = "val" /\ ~tainted

\* C17: a worker is launched only by the constructor or by the liveness check at the
\* start of a send_command_and_parse_result that found no worker or an exited one;
\* no step taken after that check launches a worker.
Launch == Len(wstate') > Len(wstate)

C17_LazyRespawn ==
    [][Launch =>
        \/ pc = "new"
        \/ /\ pc \in {"idle", "ping"}
           /\ (proc = 0 \/ wstate[proc].st \in {"exited", "killed"})]_vars

C17_Witness ==
    /\ FinishedCall /\ ~callDead /\ nsent = 1
    /\ comm_mode = "PIPE" /\ result = Exc("call", "struct.error")
    /\ proc = 1 /\ Len(wstate) = 1 /\ wstate[1].st = "exited"

\* C18: no step changes the configdict the session stores, so that every launch
\* builds its command line from the configuration the constructor was given.
C18_ConfigUnchanged == [][configdict' = configdict]_vars

\* C19: when start_server returns normally, the PING just answered got the PONG
\* text from the worker self.proc refers to, and that worker is the one launched last.
StartServerReturns ==
    /\ Len(stk) >= 2 /\ Len(stk') = Len(stk) - 2
    /\ result'.kind # "raise"

C19_ReadyWorkerIsCurrent ==
    [][StartServerReturns =>
        /\ proc' = proc /\ proc' = Len(wstate')
        /\ reply'.got /\ reply'.startup /\ reply'.text = RawPong
        /\ proc' \in ponged']_vars

C19_Witness ==
    /\ pc = "idle" /\ result = Val("init", "constructed")
    /\ Len(wstate) = 2 /\ proc = 2 /\ 2 \in ponged /\ wstate[1].st = "exited"

\* C20: in PIPE mode the fifo exists at every launch and when start_server opens it,
\* also for a launch that follows a cleanup which unlinked it.
C20_PipeAtEveryLaunch ==
    /\ []((comm_mode = "PIPE" /\ pc = "probe") => pipeExists)
    /\ [][(Launch /\ comm_mode = "PIPE") => pipeExists']_vars

C20_Witness ==
    /\ comm_mode = "PIPE" /\ FinishedCall /\ result.kind = "val"
    /\ Len(wstate) = 2 /\ wstate[1].st = "killed" /\ wstate[2].st = "listening"
    /\ pipeExists /\ outpipe_fp = 2
====
